---- MODULE Spec2Model ----
(***************************************************************************)
(* Model of the governance-economics engine of the futarchy simulation     *)
(* scripts:                                                                *)
(*   sybil_simulation.py     position limits, whale and sybil attacks,     *)
(*                           reputation decay                              *)
(*   prediction_accuracy.py  reputation-gated prediction market            *)
(*   cartel_analysis.py      legislator cartel power, attack cost, the     *)
(*                           optimizer and the enumeration of cartels      *)
(*                                                                         *)
(* Number representation.  The scripts compute with Python floats.  Here   *)
(* every float is an exact rational [num, den] in lowest terms with        *)
(* den > 0, so that equal values are equal records and no product or       *)
(* quotient of the code is rounded.  Rounding in the last binary place is  *)
(* therefore outside the model.                                            *)
(***************************************************************************)
EXTENDS Integers, Sequences, FiniteSets, TLC

----------------------------------------------------------------------------
(* Exact rational arithmetic *)

Abs(i) == IF i < 0 THEN -i ELSE i

RECURSIVE GCD(_, _)
GCD(a, b) == IF b = 0 THEN a ELSE GCD(b, a % b)

\* n/d in lowest terms, the sign carried by the numerator (d # 0)
Rat(n, d) ==
    LET g == GCD(Abs(n), Abs(d))
        s == IF d < 0 THEN -1 ELSE 1
    IN  [num |-> (s * n) \div g, den |-> (s * d) \div g]

float(i) == [num |-> i, den |-> 1]

\* common factors are divided out before multiplying, to keep the
\* intermediate integers small
a \oplus b ==
    LET g == GCD(a.den, b.den)
    IN  Rat(a.num * (b.den \div g) + b.num * (a.den \div g), (a.den \div g) * b.den)
a \ominus b ==
    LET g == GCD(a.den, b.den)
    IN  Rat(a.num * (b.den \div g) - b.num * (a.den \div g), (a.den \div g) * b.den)
a \odot b ==
    LET g1 == GCD(Abs(a.num), b.den)
        g2 == GCD(Abs(b.num), a.den)
    IN  Rat((a.num \div g1) * (b.num \div g2), (a.den \div g2) * (b.den \div g1))
a \oslash b == a \odot Rat(b.den, b.num)
a \preceq b ==
    LET g == GCD(a.den, b.den)
    IN  a.num * (b.den \div g) <= b.num * (a.den \div g)
a \prec b ==
    LET g == GCD(a.den, b.den)
    IN  a.num * (b.den \div g) < b.num * (a.den \div g)
a \succeq b == b \preceq a
a \succ b   == b \prec a

min(a, b) == IF b \prec a THEN b ELSE a
max(a, b) == IF b \succ a THEN b ELSE a

RECURSIVE sum(_)
sum(s) == IF s = <<>> THEN float(0) ELSE Head(s) \oplus sum(Tail(s))

len(s) == Len(s)

----------------------------------------------------------------------------
(* sybil_simulation.py: class ReputationWeightedMarket, constants *)

INITIAL_REP == 100
MIN_REP_FOR_GENESIS == 1000
GENESIS_PHASE_BLOCKS == 100
EARLY_GROWTH_BLOCKS == 500

TIER_5_REP == 10000
TIER_5_ACC == Rat(70, 100)
TIER_5_LIMIT == Rat(5, 100)

TIER_4_REP == 5000
TIER_4_ACC == Rat(65, 100)
TIER_4_LIMIT == Rat(4, 100)

TIER_3_REP == 1000
TIER_3_ACC == Rat(60, 100)
TIER_3_LIMIT == Rat(3, 100)

TIER_2_REP == 500
TIER_2_ACC == Rat(55, 100)
TIER_2_LIMIT == Rat(2, 100)

TIER_1_LIMIT == Rat(1, 100)

\* dataclass User
User(address, capital, reputation, accuracy, markets_participated) ==
    [address |-> address, capital |-> capital, reputation |-> reputation,
     accuracy |-> accuracy, markets_participated |-> markets_participated]

VARIABLES
    program,          \* which script is running
    total_liquidity,  \* ReputationWeightedMarket.total_liquidity
    creation_block,   \* ReputationWeightedMarket.creation_block
    current_block,    \* ReputationWeightedMarket.current_block
    rep_market,       \* prediction_accuracy.py: the ReputationWeightedMarket object
    cartel,           \* cartel_analysis.py: the LegislatorCartel object
    call              \* the last call made, its arguments and what it returned

vars == <<program, total_liquidity, creation_block, current_block, rep_market, cartel, call>>

\* the market object as the methods read it
market == [total_liquidity |-> total_liquidity,
           creation_block |-> creation_block,
           current_block |-> current_block]

\* an assignment to the clock that is left out
set_current_block_skipped(self, block) == self

\* market.current_block = block
set_current_block(self, block) == [self EXCEPT !.current_block = block]

\* can_participate_in_genesis with the floor of newcomers, INITIAL_REP, in
\* place of MIN_REP_FOR_GENESIS
can_participate_in_genesis_initial_rep(self, user) ==
    LET blocks_since_creation == self.current_block - self.creation_block
    IN  IF blocks_since_creation < GENESIS_PHASE_BLOCKS
        THEN user.reputation \succeq float(INITIAL_REP)
        ELSE TRUE

\* can_participate_in_genesis(self, user)
can_participate_in_genesis(self, user) ==
    LET blocks_since_creation == self.current_block - self.creation_block
    IN  IF blocks_since_creation < GENESIS_PHASE_BLOCKS
        THEN user.reputation \succeq float(MIN_REP_FOR_GENESIS)
        ELSE TRUE

\* the phase ladder with the boundaries given to the earlier phase
phase_of_inclusive(blocks_since_creation) ==
    IF blocks_since_creation <= GENESIS_PHASE_BLOCKS THEN "Genesis"
    ELSE IF blocks_since_creation <= EARLY_GROWTH_BLOCKS THEN "EarlyGrowth"
    ELSE "Standard"

\* the branch of calculate_position_limit taken for an elapsed block count
phase_of(blocks_since_creation) ==
    IF blocks_since_creation < GENESIS_PHASE_BLOCKS THEN "Genesis"
    ELSE IF blocks_since_creation < EARLY_GROWTH_BLOCKS THEN "EarlyGrowth"
    ELSE "Standard"

\* Phase 1 without the cap at 20% of the liquidity
genesis_limit_uncapped(self, user) ==
    IF user.reputation \prec float(MIN_REP_FOR_GENESIS)
    THEN float(0)
    ELSE LET rep_factor == min(user.reputation \oslash float(MIN_REP_FOR_GENESIS), float(10))
         IN  ((float(1000) \odot Rat(20, 100)) \odot rep_factor) \oslash float(10)

\* Phase 1 without the cap of 10 on rep_factor
genesis_limit_unbounded_factor(self, user) ==
    IF user.reputation \prec float(MIN_REP_FOR_GENESIS)
    THEN float(0)
    ELSE LET rep_factor == user.reputation \oslash float(MIN_REP_FOR_GENESIS)
             max_genesis == ((float(1000) \odot Rat(20, 100)) \odot rep_factor) \oslash float(10)
         IN  min(max_genesis, self.total_liquidity \odot Rat(20, 100))

\* Phase 1 of calculate_position_limit
genesis_limit(self, user) ==
    IF ~can_participate_in_genesis(self, user)
    THEN float(0)
    ELSE LET rep_factor == min(user.reputation \oslash float(MIN_REP_FOR_GENESIS), float(10))
             min_liquidity == float(1000)
             max_genesis == ((min_liquidity \odot Rat(20, 100)) \odot rep_factor) \oslash float(10)
         IN  min(max_genesis, self.total_liquidity \odot Rat(20, 100))

\* Phase 2 with the progress counted from the creation block
early_growth_limit_from_creation(self, blocks_since_creation) ==
    LET phase_length == EARLY_GROWTH_BLOCKS - GENESIS_PHASE_BLOCKS
        percentage_limit ==
            Rat(30, 100) \oplus (Rat(blocks_since_creation, phase_length) \odot Rat(20, 100))
    IN  self.total_liquidity \odot percentage_limit

\* Phase 2 starting from the 20% of Genesis
early_growth_limit_from_twenty(self, blocks_since_creation) ==
    self.total_liquidity
        \odot (Rat(20, 100)
                   \oplus (Rat(blocks_since_creation - GENESIS_PHASE_BLOCKS,
                               EARLY_GROWTH_BLOCKS - GENESIS_PHASE_BLOCKS) \odot Rat(20, 100)))

\* Phase 2 of calculate_position_limit
early_growth_limit(self, blocks_since_creation) ==
    LET block_progress == blocks_since_creation - GENESIS_PHASE_BLOCKS
        phase_length == EARLY_GROWTH_BLOCKS - GENESIS_PHASE_BLOCKS
        percentage_limit ==
            Rat(30, 100) \oplus (Rat(block_progress, phase_length) \odot Rat(20, 100))
    IN  self.total_liquidity \odot percentage_limit

\* the ladder with either floor enough to enter a tier
base_limit_either_floor(rep, acc) ==
    IF rep \succeq float(TIER_5_REP) \/ acc \succeq TIER_5_ACC THEN TIER_5_LIMIT
    ELSE IF rep \succeq float(TIER_4_REP) \/ acc \succeq TIER_4_ACC THEN TIER_4_LIMIT
    ELSE IF rep \succeq float(TIER_3_REP) \/ acc \succeq TIER_3_ACC THEN TIER_3_LIMIT
    ELSE IF rep \succeq float(TIER_2_REP) \/ acc \succeq TIER_2_ACC THEN TIER_2_LIMIT
    ELSE TIER_1_LIMIT

\* the ladder with the limits of tiers 3 and 4 exchanged
base_limit_swapped(rep, acc) ==
    IF rep \succeq float(TIER_5_REP) /\ acc \succeq TIER_5_ACC THEN TIER_5_LIMIT
    ELSE IF rep \succeq float(TIER_4_REP) /\ acc \succeq TIER_4_ACC THEN TIER_3_LIMIT
    ELSE IF rep \succeq float(TIER_3_REP) /\ acc \succeq TIER_3_ACC THEN TIER_4_LIMIT
    ELSE IF rep \succeq float(TIER_2_REP) /\ acc \succeq TIER_2_ACC THEN TIER_2_LIMIT
    ELSE TIER_1_LIMIT

\* Phase 3 of calculate_position_limit: the 5-tier ladder
base_limit(rep, acc) ==
    IF rep \succeq float(TIER_5_REP) /\ acc \succeq TIER_5_ACC THEN TIER_5_LIMIT
    ELSE IF rep \succeq float(TIER_4_REP) /\ acc \succeq TIER_4_ACC THEN TIER_4_LIMIT
    ELSE IF rep \succeq float(TIER_3_REP) /\ acc \succeq TIER_3_ACC THEN TIER_3_LIMIT
    ELSE IF rep \succeq float(TIER_2_REP) /\ acc \succeq TIER_2_ACC THEN TIER_2_LIMIT
    ELSE TIER_1_LIMIT

standard_limit(self, user) ==
    self.total_liquidity \odot base_limit(user.reputation, user.accuracy)

\* calculate_position_limit(self, user)
calculate_position_limit(self, user) ==
    LET blocks_since_creation == self.current_block - self.creation_block
        phase == phase_of(blocks_since_creation)
    IN  IF phase = "Genesis" THEN genesis_limit(self, user)
        ELSE IF phase = "EarlyGrowth" THEN early_growth_limit(self, blocks_since_creation)
        ELSE standard_limit(self, user)

\* the effective stake of each honest user: min(u.capital, limit)
honest_stakes(self, honest_users) ==
    [i \in 1..Len(honest_users) |->
        min(honest_users[i].capital, calculate_position_limit(self, honest_users[i]))]

\* x / y if y > 0 else 0
ratio_or_zero(x, y) == IF y \succ float(0) THEN x \oslash y ELSE float(0)

\* float('inf'): above every rational under \preceq
inf == [num |-> 1, den |-> 0]

\* simulate_whale_attack(market, attacker, honest_users), self being the
\* market after market.current_block = 600
simulate_whale_attack(self, attacker, honest_users) ==
    LET attacker_limit == calculate_position_limit(self, attacker)
        attacker_effective_stake == min(attacker.capital, attacker_limit)
        stakes == honest_stakes(self, honest_users)
        honest_total_stake == sum(stakes)
        total_effective == attacker_effective_stake \oplus honest_total_stake
        attacker_influence == ratio_or_zero(attacker_effective_stake, total_effective)
        total_capital ==
            attacker.capital \oplus sum([i \in 1..Len(honest_users) |-> honest_users[i].capital])
        expected_influence == ratio_or_zero(attacker.capital, total_capital)
        gain_ratio == ratio_or_zero(attacker_influence, expected_influence)
    IN  IF total_capital = float(0)
        THEN [op |-> "simulate_whale_attack", raised |-> "ZeroDivisionError"]
        ELSE [op |-> "simulate_whale_attack",
              raised |-> "",
              honest_users |-> honest_users,
              honest_stakes |-> stakes,
              honest_total_stake |-> honest_total_stake,
              total_effective |-> total_effective,
              attacker_capital |-> attacker.capital,
              attacker_reputation |-> attacker.reputation,
              attacker_accuracy |-> attacker.accuracy,
              attacker_limit |-> attacker_limit,
              attacker_effective_stake |-> attacker_effective_stake,
              total_capital |-> total_capital,
              attacker_capital_pct |-> (attacker.capital \oslash total_capital) \odot float(100),
              attacker_influence_pct |-> attacker_influence \odot float(100),
              expected_influence_pct |-> expected_influence \odot float(100),
              gain_ratio |-> gain_ratio,
              protection_effectiveness |->
                  IF expected_influence \succ float(0)
                  THEN ((expected_influence \ominus attacker_influence)
                            \oslash expected_influence) \odot float(100)
                  ELSE float(0)]

\* sybil identities that start on the second tier
sybil_users_tier2(total_attacker_capital, sybil_count) ==
    [i \in 1..sybil_count |->
        User(<<"sybil", i - 1>>, total_attacker_capital \oslash float(sybil_count),
             float(TIER_2_REP), TIER_2_ACC, 1)]

\* the sybil identities: INITIAL_REP and accuracy 0.50 each
sybil_users(total_attacker_capital, sybil_count) ==
    LET capital_per_sybil == total_attacker_capital \oslash float(sybil_count)
    IN  [i \in 1..sybil_count |->
            User(<<"sybil", i - 1>>, capital_per_sybil, float(INITIAL_REP), Rat(50, 100), 1)]

limits_of(self, users) ==
    [i \in 1..Len(users) |-> calculate_position_limit(self, users[i])]

\* TEST 1 of simulate_sybil_attack, self being the market at block 50
genesis_result(self, sybils) ==
    LET genesis_eligible == SelectSeq(sybils, LAMBDA s : can_participate_in_genesis(self, s))
    IN  IF len(genesis_eligible) = 0
        THEN [genesis_blocked |-> TRUE,
              genesis_eligible_count |-> 0,
              genesis_total_limit |-> float(0)]
        ELSE [genesis_blocked |-> FALSE,
              genesis_eligible_count |-> len(genesis_eligible),
              genesis_total_limit |-> sum(limits_of(self, genesis_eligible))]

\* TEST 2 and the benchmarks of simulate_sybil_attack, self being the market
\* at block 600
standard_result(self, total_attacker_capital, sybil_count, honest_users, genesis) ==
    LET sybils == sybil_users(total_attacker_capital, sybil_count)
        sybil_limits == limits_of(self, sybils)
        sybil_total_limit == sum(sybil_limits)
        single_tier3 == User(<<"single_tier3", 0>>, total_attacker_capital,
                             float(TIER_3_REP), TIER_3_ACC, sybil_count)
        single_tier3_limit == calculate_position_limit(self, single_tier3)
        sybil_advantage_tier3 ==
            IF single_tier3_limit \succ float(0)
            THEN sybil_total_limit \oslash single_tier3_limit ELSE inf
        single_tier5 == User(<<"single_tier5", 0>>, total_attacker_capital,
                             float(TIER_5_REP), TIER_5_ACC, sybil_count * 10)
        single_tier5_limit == calculate_position_limit(self, single_tier5)
        sybil_advantage_tier5 ==
            IF single_tier5_limit \succ float(0)
            THEN sybil_total_limit \oslash single_tier5_limit ELSE inf
        stakes == honest_stakes(self, honest_users)
        honest_total == sum(stakes)
        total_market == sybil_total_limit \oplus honest_total
        sybil_influence == ratio_or_zero(sybil_total_limit, total_market)
    IN  [op |-> "simulate_sybil_attack",
         pc |-> "returned",
         raised |-> "",
         total_attacker_capital |-> total_attacker_capital,
         honest_users |-> honest_users,
         sybil_users |-> sybils,
         sybil_limits |-> sybil_limits,
         honest_stakes |-> stakes,
         honest_total |-> honest_total,
         total_market |-> total_market,
         sybil_count |-> sybil_count,
         capital_per_sybil |-> total_attacker_capital \oslash float(sybil_count),
         sybil_initial_rep |-> INITIAL_REP,
         genesis_blocked |-> genesis.genesis_blocked,
         genesis_eligible_count |-> genesis.genesis_eligible_count,
         sybil_total_limit |-> sybil_total_limit,
         sybil_per_user_limit |-> IF len(sybil_limits) > 0 THEN sybil_limits[1] ELSE float(0),
         single_tier3_limit |-> single_tier3_limit,
         sybil_advantage_tier3 |-> sybil_advantage_tier3,
         single_tier5_limit |-> single_tier5_limit,
         sybil_advantage_tier5 |-> sybil_advantage_tier5,
         sybil_influence_pct |-> sybil_influence \odot float(100),
         honest_influence_pct |-> (float(1) \ominus sybil_influence) \odot float(100),
         meritrank_compliant |-> sybil_advantage_tier5 \preceq float(2)]

\* simulate_reputation_decay_resistance: its constants
DECAY_RATE == Rat(1, 100)
DECAY_PERIOD_DAYS == 30
MIN_ACTIVITY_THRESHOLD_DAYS == 90
MIN_PROTECTION_RATE == Rat(25, 100)

\* the guard with the threshold read as months
decay_exempt_by_months(months_inactive) == months_inactive <= MIN_ACTIVITY_THRESHOLD_DAYS

\* months_inactive * 30 <= MIN_ACTIVITY_THRESHOLD_DAYS
decay_exempt(months_inactive) == months_inactive * 30 <= MIN_ACTIVITY_THRESHOLD_DAYS

\* the periods counted from the first inactive day
decay_periods_from_day_zero(months_inactive) ==
    float(months_inactive * 30) \oslash float(DECAY_PERIOD_DAYS)

\* inactive_days / DECAY_PERIOD_DAYS
decay_periods(months_inactive) ==
    LET inactive_days == months_inactive * 30 - MIN_ACTIVITY_THRESHOLD_DAYS
    IN  float(inactive_days) \oslash float(DECAY_PERIOD_DAYS)

\* the rate without its cap
total_decay_rate_uncapped(periods) == DECAY_RATE \odot periods

\* min(DECAY_RATE * decay_periods, 1 - MIN_PROTECTION_RATE)
total_decay_rate(periods) ==
    min(DECAY_RATE \odot periods, float(1) \ominus MIN_PROTECTION_RATE)

\* the remainder with the decay added
remaining_rep_added(initial_rep, decay_amount) ==
    max(initial_rep \oplus decay_amount, initial_rep \odot MIN_PROTECTION_RATE)

\* max(initial_rep - decay_amount, initial_rep * MIN_PROTECTION_RATE)
remaining_rep(initial_rep, decay_amount) ==
    max(initial_rep \ominus decay_amount, initial_rep \odot MIN_PROTECTION_RATE)

\* simulate_reputation_decay_resistance(initial_rep, months_inactive): the
\* returned dict, and the locals of the decaying branch
simulate_reputation_decay_resistance(initial_rep, months_inactive) ==
    LET exempt == decay_exempt(months_inactive)
        periods == decay_periods(months_inactive)
        rate == total_decay_rate(periods)
        decay_amount == IF exempt THEN float(0) ELSE initial_rep \odot rate
        remaining == IF exempt THEN initial_rep ELSE remaining_rep(initial_rep, decay_amount)
    IN  [months_inactive |-> months_inactive,
         initial_reputation |-> initial_rep,
         decayed_reputation |-> remaining,
         decay_amount |-> decay_amount,
         decay_percentage |->
             IF initial_rep \succ float(0)
             THEN (decay_amount \oslash initial_rep) \odot float(100) ELSE float(0),
         remaining_percentage |->
             IF initial_rep \succ float(0)
             THEN (remaining \oslash initial_rep) \odot float(100) ELSE float(0),
         locals |-> IF exempt THEN [branch |-> "active"]
                    ELSE [branch |-> "decay", decay_periods |-> periods,
                          total_decay_rate |-> rate]]

----------------------------------------------------------------------------
(* prediction_accuracy.py: class ReputationWeightedMarket *)

\* calculate_position_limit(self, reputation, accuracy): a fraction of liquidity
pa_calculate_position_limit(reputation, accuracy) ==
    IF reputation \succeq float(TIER_5_REP) /\ accuracy \succeq TIER_5_ACC THEN TIER_5_LIMIT
    ELSE IF reputation \succeq float(TIER_4_REP) /\ accuracy \succeq TIER_4_ACC THEN TIER_4_LIMIT
    ELSE IF reputation \succeq float(TIER_3_REP) /\ accuracy \succeq TIER_3_ACC THEN TIER_3_LIMIT
    ELSE IF reputation \succeq float(TIER_2_REP) /\ accuracy \succeq TIER_2_ACC THEN TIER_2_LIMIT
    ELSE TIER_1_LIMIT

\* ReputationWeightedMarket(liquidity)
new_rep_market(liquidity) ==
    [liquidity |-> liquidity,
     total_yes |-> liquidity \oslash float(2),
     total_no |-> liquidity \oslash float(2),
     trades |-> <<>>]

\* add_trade moving the requested amount into the pool
add_trade_requested_into_pool(self, outcome, amount, trader_reputation, trader_accuracy) ==
    LET effective_amount ==
            min(amount, pa_calculate_position_limit(trader_reputation, trader_accuracy)
                            \odot self.liquidity)
    IN  [liquidity |-> self.liquidity,
         total_yes |-> IF outcome = 0 THEN self.total_yes \oplus amount ELSE self.total_yes,
         total_no |-> IF outcome = 0 THEN self.total_no ELSE self.total_no \oplus amount,
         trades |-> Append(self.trades,
                           [outcome |-> outcome,
                            amount |-> effective_amount,
                            reputation |-> trader_reputation,
                            accuracy |-> trader_accuracy,
                            capped |-> effective_amount \prec amount])]

\* add_trade(self, outcome, amount, trader_reputation, trader_accuracy)
add_trade(self, outcome, amount, trader_reputation, trader_accuracy) ==
    LET max_position ==
            pa_calculate_position_limit(trader_reputation, trader_accuracy) \odot self.liquidity
        effective_amount == min(amount, max_position)
    IN  [liquidity |-> self.liquidity,
         total_yes |-> IF outcome = 0 THEN self.total_yes \oplus effective_amount
                       ELSE self.total_yes,
         total_no |-> IF outcome = 0 THEN self.total_no
                      ELSE self.total_no \oplus effective_amount,
         trades |-> Append(self.trades,
                           [outcome |-> outcome,
                            amount |-> effective_amount,
                            reputation |-> trader_reputation,
                            accuracy |-> trader_accuracy,
                            capped |-> effective_amount \prec amount])]

\* calculate_price(self, outcome)
calculate_price(self, outcome) ==
    LET total == self.total_yes \oplus self.total_no
    IN  IF outcome = 0
        THEN IF total \succ float(0) THEN self.total_yes \oslash total ELSE Rat(1, 2)
        ELSE IF total \succ float(0) THEN self.total_no \oslash total ELSE Rat(1, 2)

----------------------------------------------------------------------------
(* cartel_analysis.py: class LegislatorCartel *)

OVERRIDE_THRESHOLD == Rat(6666, 10000)
MIN_LEGISLATORS == 7
MAX_LEGISLATORS == 21
TERM_LENGTH_WEEKS == 12
SLASH_PENALTY == Rat(10, 100)

\* the members of a set of indices in ascending order, as combinations() yields them
RECURSIVE sorted(_)
sorted(S) ==
    IF S = {} THEN <<>>
    ELSE LET m == CHOOSE x \in S : \A y \in S : x <= y
         IN  <<m>> \o sorted(S \ {m})

\* LegislatorCartel(n_legislators, performance_scores, reputation_values, market_value)
LegislatorCartel(n_legislators, performance_scores, reputation_values, market_value) ==
    [n |-> n_legislators, scores |-> performance_scores,
     reputations |-> reputation_values, market_value |-> market_value]

\* sum(values[i] for i in cartel_members); the members are 0-based indices
sum_over(values, cartel_members) ==
    sum([k \in 1..Len(cartel_members) |-> values[cartel_members[k] + 1]])

\* calculate_cartel_power with a strict comparison against the threshold
calculate_cartel_power_strict(self, cartel_members) ==
    LET cartel_score_sum == sum_over(self.scores, cartel_members)
        cartel_rep_sum == sum_over(self.reputations, cartel_members)
        total_score_sum == sum(self.scores)
        total_rep_sum == sum(self.reputations)
        cartel_power ==
            ((Rat(6, 10) \odot cartel_score_sum) \oslash total_score_sum)
                \oplus ((Rat(4, 10) \odot cartel_rep_sum) \oslash total_rep_sum)
    IN  IF total_score_sum = float(0) \/ total_rep_sum = float(0)
        THEN [raised |-> "ZeroDivisionError"]
        ELSE [raised |-> "",
              cartel_size |-> len(cartel_members),
              voting_power |-> cartel_power,
              can_override |-> cartel_power \succ OVERRIDE_THRESHOLD,
              score_share |-> cartel_score_sum \oslash total_score_sum,
              rep_share |-> cartel_rep_sum \oslash total_rep_sum]

\* calculate_cartel_power with the reputation sum divided by the score total
calculate_cartel_power_wrong_total(self, cartel_members) ==
    LET cartel_score_sum == sum_over(self.scores, cartel_members)
        cartel_rep_sum == sum_over(self.reputations, cartel_members)
        total_score_sum == sum(self.scores)
        total_rep_sum == sum(self.reputations)
        cartel_power ==
            ((Rat(6, 10) \odot cartel_score_sum) \oslash total_score_sum)
                \oplus ((Rat(4, 10) \odot cartel_rep_sum) \oslash total_score_sum)
    IN  IF total_score_sum = float(0) \/ total_rep_sum = float(0)
        THEN [raised |-> "ZeroDivisionError"]
        ELSE [raised |-> "",
              cartel_size |-> len(cartel_members),
              voting_power |-> cartel_power,
              can_override |-> cartel_power \succeq OVERRIDE_THRESHOLD,
              score_share |-> cartel_score_sum \oslash total_score_sum,
              rep_share |-> cartel_rep_sum \oslash total_rep_sum]

\* calculate_cartel_power(self, cartel_members)
calculate_cartel_power(self, cartel_members) ==
    LET cartel_score_sum == sum_over(self.scores, cartel_members)
        cartel_rep_sum == sum_over(self.reputations, cartel_members)
        total_score_sum == sum(self.scores)
        total_rep_sum == sum(self.reputations)
        cartel_power ==
            ((Rat(6, 10) \odot cartel_score_sum) \oslash total_score_sum)
                \oplus ((Rat(4, 10) \odot cartel_rep_sum) \oslash total_rep_sum)
    IN  IF total_score_sum = float(0) \/ total_rep_sum = float(0)
        THEN [raised |-> "ZeroDivisionError"]
        ELSE [raised |-> "",
              cartel_size |-> len(cartel_members),
              voting_power |-> cartel_power,
              can_override |-> cartel_power \succeq OVERRIDE_THRESHOLD,
              score_share |-> cartel_score_sum \oslash total_score_sum,
              rep_share |-> cartel_rep_sum \oslash total_rep_sum]

\* calculate_attack_cost charging the overhead for every member
calculate_attack_cost_overhead_per_member(self, cartel_members) ==
    LET costs ==
            [k \in 1..Len(cartel_members) |->
                (((self.market_value \odot Rat(25, 1000)) \odot float(TERM_LENGTH_WEEKS))
                    \oplus ((self.reputations[cartel_members[k] + 1] \odot SLASH_PENALTY)
                                \odot Rat(30, 100)))
                    \oplus (float(len(cartel_members)) \odot Rat(1, 10))]
        base_cost == sum(costs)
    IN  base_cost \oplus ((base_cost \odot float(len(cartel_members))) \odot Rat(5, 100))

\* calculate_attack_cost(self, cartel_members)
calculate_attack_cost(self, cartel_members) ==
    LET costs ==
            [k \in 1..Len(cartel_members) |->
                LET member == cartel_members[k]
                    expected_earnings ==
                        (self.market_value \odot Rat(25, 1000)) \odot float(TERM_LENGTH_WEEKS)
                    rep_value == self.reputations[member + 1]
                    rep_risk == (rep_value \odot SLASH_PENALTY) \odot Rat(30, 100)
                    coord_cost == float(len(cartel_members)) \odot Rat(1, 10)
                IN  (expected_earnings \oplus rep_risk) \oplus coord_cost]
        base_cost == sum(costs)
        overhead == (base_cost \odot float(len(cartel_members) - 1)) \odot Rat(5, 100)
    IN  base_cost \oplus overhead

RECURSIVE combinations_from(_, _, _)
\* the size-element combinations of lo..(n - 1) in lexicographic order
combinations_from(lo, n, size) ==
    IF size = 0 THEN << <<>> >>
    ELSE IF lo > n - size THEN <<>>
    ELSE [k \in 1..Len(combinations_from(lo + 1, n, size - 1)) |->
             <<lo>> \o combinations_from(lo + 1, n, size - 1)[k]]
         \o combinations_from(lo + 1, n, size)

\* itertools.combinations(range(n), size)
combinations(n, size) == combinations_from(0, n, size)

RECURSIVE sorted_by_cost(_)
\* sorted(results, key=lambda x: x['cost']): stable, ascending
sorted_by_cost(results) ==
    IF results = <<>> THEN <<>>
    ELSE LET front == sorted_by_cost(SubSeq(results, 1, Len(results) - 1))
             x == results[Len(results)]
             keep == {k \in 1..Len(front) : front[k].cost \preceq x.cost}
             at == IF keep = {} THEN 0 ELSE CHOOSE k \in keep : \A j \in keep : j <= k
         IN  SubSeq(front, 1, at) \o <<x>> \o SubSeq(front, at + 1, Len(front))

RECURSIVE cartels_of_sizes(_, _)
\* the loop of brute_force_cartels over size..self.n: the overriding
\* combinations in the order they are met
cartels_of_sizes(self, size) ==
    IF size > self.n THEN <<>>
    ELSE LET all == combinations(self.n, size)
             found == SelectSeq(all,
                          LAMBDA c : calculate_cartel_power(self, c).can_override)
         IN  [k \in 1..Len(found) |->
                 [size |-> size,
                  members |-> found[k],
                  cost |-> calculate_attack_cost(self, found[k]),
                  power |-> calculate_cartel_power(self, found[k]).voting_power]]
             \o cartels_of_sizes(self, size + 1)

\* brute_force_cartels(self)
brute_force_cartels(self) ==
    IF self.n >= MIN_LEGISLATORS
           /\ (sum(self.scores) = float(0) \/ sum(self.reputations) = float(0))
    THEN [raised |-> "ZeroDivisionError"]
    ELSE [raised |-> "", results |-> sorted_by_cost(cartels_of_sizes(self, MIN_LEGISLATORS))]

\* find_minimum_cartel: costs[i] of the objective
lp_cost(self, i) ==
    LET expected_earnings ==
            (self.market_value \odot Rat(25, 1000)) \odot float(TERM_LENGTH_WEEKS)
        rep_risk == (self.reputations[i + 1] \odot SLASH_PENALTY) \odot Rat(30, 100)
    IN  expected_earnings \oplus rep_risk

\* the coefficient with the two weights exchanged
lp_weight_swapped(self, i) ==
    ((Rat(4, 10) \odot self.scores[i + 1]) \oslash sum(self.scores))
        \oplus ((Rat(6, 10) \odot self.reputations[i + 1]) \oslash sum(self.reputations))

\* find_minimum_cartel: the coefficient of x[i] in the constraint
lp_weight(self, i) ==
    LET total_score == sum(self.scores)
        total_rep == sum(self.reputations)
    IN  ((Rat(6, 10) \odot self.scores[i + 1]) \oslash total_score)
            \oplus ((Rat(4, 10) \odot self.reputations[i + 1]) \oslash total_rep)

\* the constraint with the comparison turned around
lp_constraint_reversed(self, S) ==
    sum([k \in 1..Cardinality(S) |-> lp_weight(self, sorted(S)[k])]) \preceq OVERRIDE_THRESHOLD

\* the objective and the constraint for the assignment x[i] = 1 iff i \in S
lp_objective(self, S) == sum([k \in 1..Cardinality(S) |-> lp_cost(self, sorted(S)[k])])
lp_constraint(self, S) ==
    sum([k \in 1..Cardinality(S) |-> lp_weight(self, sorted(S)[k])]) \succeq OVERRIDE_THRESHOLD

\* prob.solve(): the 0/1 assignments that meet the constraint at the least
\* objective; the solver may return any of them
lp_solutions(self) ==
    LET feasible == {S \in SUBSET (0..(self.n - 1)) : lp_constraint(self, S)}
        objective == [S \in feasible |-> lp_objective(self, S)]
    IN  {S \in feasible : \A T \in feasible : objective[S] \preceq objective[T]}

\* find_minimum_cartel(self), S being the assignment the solver returned
find_minimum_cartel(self, S) ==
    IF sum(self.scores) = float(0) \/ sum(self.reputations) = float(0)
    THEN [raised |-> "ZeroDivisionError"]
    ELSE LET cartel_members == sorted(S)
         IN  [raised |-> "",
              cartel_members |-> cartel_members,
              cartel_size |-> len(cartel_members),
              total_cost |-> lp_objective(self, S),
              power |-> calculate_cartel_power(self, cartel_members)]

\* simulate_cartel_scenarios: min(0.05 * min_cartel['cartel_size'], 0.95)
detection_prob(cartel_size) == min(Rat(5, 100) \odot float(cartel_size), Rat(95, 100))

\* the expected value with the gain left undiscounted
expected_value_undiscounted(attack_gain, detection, total_cost) == attack_gain \ominus total_cost

\* simulate_cartel_scenarios: attack_gain * (1 - detection_prob) - min_cartel['total_cost']
expected_value(attack_gain, detection, total_cost) ==
    (attack_gain \odot (float(1) \ominus detection)) \ominus total_cost

\* simulate_cartel_scenarios: the record appended for one trial, min_cartel
\* being what find_minimum_cartel returned for the trial's cartel
trial_record(self, min_cartel) ==
    LET attack_gain == self.market_value \odot Rat(50, 100)
        detection == detection_prob(min_cartel.cartel_size)
        value == expected_value(attack_gain, detection, min_cartel.total_cost)
    IN  [n_legislators |-> self.n,
         market_value |-> self.market_value,
         min_cartel_size |-> min_cartel.cartel_size,
         cartel_cost |-> min_cartel.total_cost,
         cartel_power |-> min_cartel.power.voting_power,
         attack_gain |-> attack_gain,
         detection_prob |-> detection,
         expected_value |-> value,
         profitable |-> value \succ float(0)]

----------------------------------------------------------------------------
(* Inputs *)

\* market sizes of run_comprehensive_simulation, in ETH
MARKET_SIZES == {10, 100, 1000, 10000}

\* block numbers the clock is advanced to: both phase boundaries, their
\* neighbours, and the blocks 50 and 600 the simulations use
Blocks == {1, 50, 99, 100, 101, 300, 499, 500, 501, 600}

Capitals == {Rat(1, 10), float(1), float(50), float(600)}
Reputations == {float(0), float(100), float(499), float(500), float(999), float(1000), float(1500),
                float(4999), float(5000), float(9999), float(10000), float(20000)}
Accuracies == {float(0), Rat(50, 100), Rat(54, 100), Rat(55, 100), Rat(60, 100),
               Rat(64, 100), Rat(65, 100), Rat(69, 100), Rat(70, 100),
               Rat(75, 100), float(1)}

Users == {User(<<"user", 0>>, c, r, a, 5) : c \in Capitals, r \in Reputations, a \in Accuracies}

\* honest populations and attackers handed to the simulations
MaxHonest == 2
HonestPool == {User(<<"honest", 0>>, Rat(1, 10), float(100), Rat(80, 100), 15),
               User(<<"honest", 1>>, float(1), float(1500), Rat(75, 100), 15),
               User(<<"honest", 2>>, float(50), float(20000), Rat(90, 100), 15),
               User(<<"honest", 3>>, float(600), float(5000), Rat(50, 100), 15)}
HonestPopulations == UNION {[1..k -> HonestPool] : k \in 0..MaxHonest}
Attackers == {User(<<"whale", 0>>, c, float(INITIAL_REP * 2), Rat(52, 100), 5) :
                  c \in {float(0), float(1), float(600)}}
             \cup {User(<<"whale", 0>>, float(50), float(10000), Rat(70, 100), 5)}
MaxSybils == 11
AttackerCapitals == {float(1), float(600)}

\* inactivity offered to simulate_reputation_decay_resistance
MaxMonths == 80
InitialReputations == {float(0), Rat(1, 2), float(100), float(10000)}

\* trades offered to the prediction market
MaxTrades == 2
LIQUIDITY == 100
TradeAmounts == {float(0), Rat(1, 2), float(3), float(10)}
Traders == {<<float(100), Rat(50, 100)>>, <<float(500), Rat(55, 100)>>,
            <<float(1500), Rat(75, 100)>>, <<float(20000), Rat(90, 100)>>}

\* legislator populations: <<scores, reputations>>
uniform(k, v) == [i \in 1..k |-> float(v)]
Populations ==
    {<<uniform(7, 100), uniform(7, 100)>>,
     <<uniform(8, 100), uniform(8, 100)>>,
     <<<<float(10), float(1), float(1), float(1), float(1), float(1), float(1)>>,
       <<float(1), float(1), float(1), float(1), float(1), float(1), float(4)>>>>,
     <<uniform(3, 1), uniform(3, 1)>>,
     <<<<float(5), float(1), float(1), float(3)>>,
       <<float(1), float(1), float(6), float(4)>>>>,
     <<<<float(0), float(2), float(8)>>, <<float(9), float(0), float(1)>>>>,
     <<<<float(3333), float(1667)>>, <<float(3333), float(1667)>>>>,
     <<<<float(0), float(0)>>, <<float(1), float(2)>>>>,
     <<<<float(3), float(4)>>, <<float(0), float(0)>>>>,
     <<<<>>, <<>>>>}
MarketValues == {float(100), float(1000)}

\* coalitions handed to calculate_cartel_power: every subset, and every
\* list that names one member twice
Coalitions(k) ==
    {sorted(S) : S \in SUBSET (0..(k - 1))} \cup {<<i, i>> : i \in 0..(k - 1)}

NoMarket == [liquidity |-> float(0), total_yes |-> float(0), total_no |-> float(0),
             trades |-> <<>>]
NoCartel == [n |-> 0, scores |-> <<>>, reputations |-> <<>>, market_value |-> float(0)]
NoCall == [op |-> "none"]

----------------------------------------------------------------------------
(* sybil_simulation.py as a state machine *)

\* ReputationWeightedMarket(total_liquidity)
InitSybil ==
    /\ program = "sybil_simulation"
    /\ total_liquidity \in {float(m) : m \in MARKET_SIZES}
    /\ creation_block = 0
    /\ current_block = 0
    /\ rep_market = NoMarket
    /\ cartel = NoCartel
    /\ call = NoCall

\* the logical clock moves forward between calls
AdvanceBlock ==
    /\ program = "sybil_simulation"
    /\ call = NoCall
    /\ \E b \in Blocks :
        /\ b > current_block
        /\ current_block' = b
    /\ UNCHANGED <<program, total_liquidity, creation_block, rep_market, cartel, call>>

\* market.calculate_position_limit(user)
CalculatePositionLimit ==
    /\ program = "sybil_simulation"
    /\ call = NoCall
    /\ \E user \in Users :
        call' = [op |-> "calculate_position_limit",
                 user |-> user,
                 blocks_since_creation |-> current_block - creation_block,
                 phase |-> phase_of(current_block - creation_block),
                 ret |-> calculate_position_limit(market, user)]
    /\ UNCHANGED <<program, total_liquidity, creation_block, current_block, rep_market, cartel>>

\* simulate_whale_attack(market, attacker, honest_users)
SimulateWhaleAttack ==
    /\ program = "sybil_simulation"
    /\ call = NoCall
    /\ current_block' = set_current_block(market, 600).current_block
    /\ \E attacker \in Attackers, honest_users \in HonestPopulations :
        call' = simulate_whale_attack(set_current_block(market, 600), attacker, honest_users)
                    @@ [attacker |-> attacker, entry_block |-> current_block]
    /\ UNCHANGED <<program, total_liquidity, creation_block, rep_market, cartel>>

\* simulate_sybil_attack(market, total_attacker_capital, sybil_count,
\* honest_users), up to the end of TEST 1: the clock is set to block 50
SimulateSybilAttackGenesis ==
    /\ program = "sybil_simulation"
    /\ call = NoCall
    /\ \E total_attacker_capital \in AttackerCapitals, sybil_count \in 0..MaxSybils,
          honest_users \in HonestPopulations :
        IF sybil_count = 0
        THEN /\ call' = [op |-> "simulate_sybil_attack", pc |-> "returned",
                         raised |-> "ZeroDivisionError", entry_block |-> current_block]
             /\ UNCHANGED current_block
        ELSE /\ current_block' = set_current_block(market, 50).current_block
             /\ call' = [op |-> "simulate_sybil_attack",
                         pc |-> "test2",
                         raised |-> "",
                         entry_block |-> current_block,
                         total_attacker_capital |-> total_attacker_capital,
                         sybil_count |-> sybil_count,
                         honest_users |-> honest_users,
                         sybil_users |-> sybil_users(total_attacker_capital, sybil_count),
                         genesis_result |->
                             genesis_result(set_current_block(market, 50),
                                 sybil_users(total_attacker_capital, sybil_count))]
    /\ UNCHANGED <<program, total_liquidity, creation_block, rep_market, cartel>>

\* simulate_sybil_attack from TEST 2 to its return: the clock is set to block 600
SimulateSybilAttackStandard ==
    /\ program = "sybil_simulation"
    /\ call.op = "simulate_sybil_attack"
    /\ call.pc = "test2"
    /\ current_block' = set_current_block(market, 600).current_block
    /\ call' = standard_result(set_current_block(market, 600),
                               call.total_attacker_capital, call.sybil_count,
                               call.honest_users, call.genesis_result)
                    @@ [entry_block |-> call.entry_block]
    /\ UNCHANGED <<program, total_liquidity, creation_block, rep_market, cartel>>

\* the caller has read the returned value
Return ==
    /\ call # NoCall
    /\ call.op = "simulate_sybil_attack" => call.pc = "returned"
    /\ call' = NoCall
    /\ UNCHANGED <<program, total_liquidity, creation_block, current_block, rep_market, cartel>>

\* simulate_reputation_decay_resistance(initial_rep, months_inactive)
SimulateReputationDecayResistance ==
    /\ program = "sybil_simulation"
    /\ call = NoCall
    /\ \E initial_rep \in InitialReputations, months_inactive \in 0..MaxMonths :
        call' = [op |-> "simulate_reputation_decay_resistance",
                 ret |-> simulate_reputation_decay_resistance(initial_rep, months_inactive)]
    /\ UNCHANGED <<program, total_liquidity, creation_block, current_block, rep_market, cartel>>

NextSybil ==
    \/ AdvanceBlock
    \/ CalculatePositionLimit
    \/ SimulateWhaleAttack
    \/ SimulateSybilAttackGenesis
    \/ SimulateSybilAttackStandard
    \/ SimulateReputationDecayResistance
    \/ Return

----------------------------------------------------------------------------
(* prediction_accuracy.py as a state machine *)

\* rep_market = ReputationWeightedMarket(liquidity=100)
InitPrediction ==
    /\ program = "prediction_accuracy"
    /\ rep_market = new_rep_market(float(LIQUIDITY))
    /\ total_liquidity = float(0)
    /\ creation_block = 0
    /\ current_block = 0
    /\ cartel = NoCartel
    /\ call = NoCall

\* rep_market.add_trade(predicted_outcome, capital, reputation, accuracy)
AddTrade ==
    /\ program = "prediction_accuracy"
    /\ Len(rep_market.trades) < MaxTrades
    /\ \E outcome \in {0, 1}, amount \in TradeAmounts, trader \in Traders :
        /\ rep_market' = add_trade(rep_market, outcome, amount, trader[1], trader[2])
        /\ call' = [op |-> "add_trade", outcome |-> outcome, amount |-> amount,
                    trader_reputation |-> trader[1], trader_accuracy |-> trader[2]]
    /\ UNCHANGED <<program, total_liquidity, creation_block, current_block, cartel>>

\* rep_market.calculate_price(outcome)
CalculatePrice ==
    /\ program = "prediction_accuracy"
    /\ \E outcome \in {0, 1} :
        call' = [op |-> "calculate_price", outcome |-> outcome,
                 ret |-> calculate_price(rep_market, outcome)]
    /\ UNCHANGED <<program, total_liquidity, creation_block, current_block, rep_market, cartel>>

NextPrediction == AddTrade \/ CalculatePrice

----------------------------------------------------------------------------
(* cartel_analysis.py as a state machine *)

\* cartel = LegislatorCartel(n_legs, performance_scores, reputation_values, market_val)
InitCartel ==
    /\ program = "cartel_analysis"
    /\ \E p \in Populations, market_value \in MarketValues :
        cartel = LegislatorCartel(Len(p[1]), p[1], p[2], market_value)
    /\ total_liquidity = float(0)
    /\ creation_block = 0
    /\ current_block = 0
    /\ rep_market = NoMarket
    /\ call = NoCall

\* cartel.calculate_cartel_power(cartel_members)
CalculateCartelPower ==
    /\ program = "cartel_analysis"
    /\ call = NoCall
    /\ \E cartel_members \in Coalitions(cartel.n) :
        call' = [op |-> "calculate_cartel_power",
                 cartel_members |-> cartel_members,
                 ret |-> calculate_cartel_power(cartel, cartel_members)]
    /\ UNCHANGED <<program, total_liquidity, creation_block, current_block, rep_market, cartel>>

\* cartel.calculate_attack_cost(cartel_members)
CalculateAttackCost ==
    /\ program = "cartel_analysis"
    /\ call = NoCall
    /\ \E cartel_members \in Coalitions(cartel.n) :
        call' = [op |-> "calculate_attack_cost",
                 cartel_members |-> cartel_members,
                 ret |-> calculate_attack_cost(cartel, cartel_members)]
    /\ UNCHANGED <<program, total_liquidity, creation_block, current_block, rep_market, cartel>>

\* cartel.brute_force_cartels()
BruteForceCartels ==
    /\ program = "cartel_analysis"
    /\ call = NoCall
    /\ call' = [op |-> "brute_force_cartels", ret |-> brute_force_cartels(cartel)]
    /\ UNCHANGED <<program, total_liquidity, creation_block, current_block, rep_market, cartel>>

\* cartel.find_minimum_cartel()
FindMinimumCartel ==
    /\ program = "cartel_analysis"
    /\ call = NoCall
    /\ IF sum(cartel.scores) = float(0) \/ sum(cartel.reputations) = float(0)
       THEN call' = [op |-> "find_minimum_cartel", ret |-> find_minimum_cartel(cartel, {})]
       ELSE \E S \in lp_solutions(cartel) :
                call' = [op |-> "find_minimum_cartel", ret |-> find_minimum_cartel(cartel, S)]
    /\ UNCHANGED <<program, total_liquidity, creation_block, current_block, rep_market, cartel>>

\* one iteration of the loops of simulate_cartel_scenarios on the cartel
\* constructed for it
SimulateCartelScenariosTrial ==
    /\ program = "cartel_analysis"
    /\ call = NoCall
    /\ IF sum(cartel.scores) = float(0) \/ sum(cartel.reputations) = float(0)
       THEN call' = [op |-> "simulate_cartel_scenarios", raised |-> "ZeroDivisionError"]
       ELSE \E S \in lp_solutions(cartel) :
                call' = [op |-> "simulate_cartel_scenarios",
                         raised |-> "",
                         min_cartel |-> find_minimum_cartel(cartel, S),
                         results |-> <<trial_record(cartel, find_minimum_cartel(cartel, S))>>]
    /\ UNCHANGED <<program, total_liquidity, creation_block, current_block, rep_market, cartel>>

NextCartel ==
    \/ CalculateCartelPower
    \/ CalculateAttackCost
    \/ BruteForceCartels
    \/ FindMinimumCartel
    \/ SimulateCartelScenariosTrial
    \/ Return

----------------------------------------------------------------------------
(* Specifications: one per script, and the three together *)

SpecSybil == InitSybil /\ [][NextSybil]_vars
SpecPrediction == InitPrediction /\ [][NextPrediction]_vars
SpecCartel == InitCartel /\ [][NextCartel]_vars

Init == InitSybil \/ InitPrediction \/ InitCartel

Next == NextSybil \/ NextPrediction \/ NextCartel

Spec == Init /\ [][Next]_vars

----------------------------------------------------------------------------
(* Claims *)

IsLimitCall == call.op = "calculate_position_limit"
IsWhaleResult == call.op = "simulate_whale_attack" /\ call.raised = ""
IsSybilResult ==
    call.op = "simulate_sybil_attack" /\ call.pc = "returned" /\ call.raised = ""
IsPowerResult == call.op = "calculate_cartel_power" /\ call.ret.raised = ""

\* the tier ladder as the specification words it
TierFraction(reputation, accuracy) ==
    IF reputation \succeq float(10000) /\ accuracy \succeq Rat(70, 100) THEN Rat(5, 100)
    ELSE IF reputation \succeq float(5000) /\ accuracy \succeq Rat(65, 100) THEN Rat(4, 100)
    ELSE IF reputation \succeq float(1000) /\ accuracy \succeq Rat(60, 100) THEN Rat(3, 100)
    ELSE IF reputation \succeq float(500) /\ accuracy \succeq Rat(55, 100) THEN Rat(2, 100)
    ELSE Rat(1, 100)

\* the market with its clock at elapsed block count e
MarketAt(e) == [market EXCEPT !.current_block = creation_block + e]

\* C1: whatever the user, the liquidity and the elapsed block count,
\* calculate_position_limit returns at most total_liquidity.
C1_LimitWithinLiquidity ==
    IsLimitCall => call.ret \preceq total_liquidity

\* a Genesis call in which the cap of 20% of the liquidity is what is returned
C1_Witness ==
    /\ IsLimitCall
    /\ call.phase = "Genesis"
    /\ call.user.reputation = float(20000)
    /\ total_liquidity = float(10)
    /\ call.ret = float(2)

\* C2: in Genesis a user with reputation below 1000 has limit 0 whatever
\* their capital and accuracy; the sybil identities of simulate_sybil_attack
\* (reputation 100) are all ineligible at block 50, so genesis_blocked is
\* true and genesis_eligible_count is 0.
C2_GenesisBlocksLowReputation ==
    /\ (IsLimitCall /\ call.blocks_since_creation < 100
            /\ call.user.reputation \prec float(1000))
        => call.ret = float(0)
    /\ (call.op = "simulate_sybil_attack" /\ call.pc = "test2")
        => /\ current_block - creation_block = 50
           /\ \A i \in 1..Len(call.sybil_users) :
                /\ call.sybil_users[i].reputation = float(100)
                /\ ~can_participate_in_genesis(market, call.sybil_users[i])
                /\ calculate_position_limit(market, call.sybil_users[i]) = float(0)
           /\ call.genesis_result.genesis_blocked
           /\ call.genesis_result.genesis_eligible_count = 0
    /\ IsSybilResult
        => call.genesis_blocked /\ call.genesis_eligible_count = 0

\* a sybil attack of ten identities that has returned
C2_Witness ==
    /\ IsSybilResult
    /\ call.sybil_count = 10
    /\ call.genesis_blocked

\* C3: the phase is decided by the elapsed block count alone: Genesis below
\* 100, EarlyGrowth from 100 to 499, Standard from 500; each phase shows in
\* the limit returned (at most 20%, 30% to 50%, at most 5% of the liquidity).
C3_PhaseFromElapsed ==
    IsLimitCall =>
        LET e == call.blocks_since_creation
        IN  /\ e < 100 =>
                /\ call.phase = "Genesis"
                /\ call.ret \preceq (total_liquidity \odot Rat(20, 100))
            /\ (100 <= e /\ e < 500) =>
                /\ call.phase = "EarlyGrowth"
                /\ call.ret \succeq (total_liquidity \odot Rat(30, 100))
            /\ e >= 500 =>
                /\ call.phase = "Standard"
                /\ call.ret \preceq (total_liquidity \odot Rat(5, 100))
            /\ Cardinality({ph \in {"Genesis", "EarlyGrowth", "Standard"} :
                               call.phase = ph}) = 1

\* a call at elapsed = 100, the first EarlyGrowth block
C3_Witness ==
    /\ IsLimitCall
    /\ call.blocks_since_creation = 100
    /\ call.phase = "EarlyGrowth"

\* C4: in Standard phase the limit is total_liquidity times the fraction of
\* the first tier whose two floors are both met, 1% when none is; the
\* prediction market's ladder gives the same fraction; reputation 1500 and
\* accuracy 0.75 on a liquidity of 1000 give 30.
C4_StandardTierLimit ==
    (IsLimitCall /\ call.blocks_since_creation >= 500) =>
        LET rep == call.user.reputation
            acc == call.user.accuracy
        IN  /\ call.ret = total_liquidity \odot TierFraction(rep, acc)
            /\ pa_calculate_position_limit(rep, acc) = TierFraction(rep, acc)
            /\ (call.ret \oslash total_liquidity)
                   \in {Rat(5, 100), Rat(4, 100), Rat(3, 100), Rat(2, 100), Rat(1, 100)}
            /\ (rep = float(1500) /\ acc = Rat(75, 100) /\ total_liquidity = float(1000))
                   => call.ret = float(30)

\* the concrete scenario of the specification
C4_Witness ==
    /\ IsLimitCall
    /\ call.phase = "Standard"
    /\ call.user.reputation = float(1500)
    /\ call.user.accuracy = Rat(75, 100)
    /\ total_liquidity = float(1000)
    /\ call.ret = float(30)

\* C5: tier assignment is monotone: a user with at least the reputation and
\* at least the accuracy of the caller gets at least the caller's fraction
\* and at least the caller's Standard-phase limit.
C5_TierMonotone ==
    (IsLimitCall /\ call.blocks_since_creation >= 500) =>
        \A r2 \in Reputations, a2 \in Accuracies :
            (r2 \succeq call.user.reputation /\ a2 \succeq call.user.accuracy) =>
                /\ base_limit(r2, a2)
                       \succeq base_limit(call.user.reputation, call.user.accuracy)
                /\ pa_calculate_position_limit(r2, a2)
                       \succeq pa_calculate_position_limit(call.user.reputation,
                                                           call.user.accuracy)
                /\ calculate_position_limit(market, User(<<"user", 0>>, float(1), r2, a2, 5))
                       \succeq call.ret

\* a Standard call of a tier-4 user, with users above and below in the inputs
C5_Witness ==
    /\ IsLimitCall
    /\ call.phase = "Standard"
    /\ call.user.reputation = float(5000)
    /\ call.user.accuracy = Rat(65, 100)
    /\ call.ret = total_liquidity \odot Rat(4, 100)

\* C6: in Genesis a user with reputation >= 1000 gets
\* min((1000 * 0.20 * repFactor) / 10, total_liquidity * 0.20) with
\* repFactor = min(reputation / 1000, 10): never above 20% of the liquidity
\* nor above 200, and non-decreasing in reputation.
C6_GenesisLimit ==
    (IsLimitCall /\ call.blocks_since_creation < 100
         /\ call.user.reputation \succeq float(1000)) =>
        LET repFactor == min(call.user.reputation \oslash float(1000), float(10))
        IN  /\ call.ret = min((float(200) \odot repFactor) \oslash float(10),
                              total_liquidity \odot Rat(20, 100))
            /\ call.ret \preceq (total_liquidity \odot Rat(20, 100))
            /\ call.ret \preceq float(200)
            /\ \A r2 \in Reputations :
                   r2 \succeq call.user.reputation =>
                       calculate_position_limit(market,
                           [call.user EXCEPT !.reputation = r2]) \succeq call.ret

\* a Genesis call where the cap of 200 is what is returned
C6_Witness ==
    /\ IsLimitCall
    /\ call.phase = "Genesis"
    /\ call.user.reputation = float(20000)
    /\ total_liquidity = float(10000)
    /\ call.ret = float(200)

\* C7: in EarlyGrowth the limit is
\* total_liquidity * (0.30 + ((elapsed - 100) / 400) * 0.20): 30% of the
\* liquidity at elapsed = 100, strictly increasing with elapsed, and always
\* strictly below 50%.
C7_EarlyGrowthLimit ==
    (IsLimitCall /\ 100 <= call.blocks_since_creation
         /\ call.blocks_since_creation < 500) =>
        LET e == call.blocks_since_creation
        IN  /\ call.ret = total_liquidity
                   \odot (Rat(30, 100) \oplus (Rat(e - 100, 400) \odot Rat(20, 100)))
            /\ e = 100 => call.ret = total_liquidity \odot Rat(30, 100)
            /\ call.ret \prec (total_liquidity \odot Rat(50, 100))
            /\ \A e2 \in (Blocks \cup {e + 1}) \cap (100..499) :
                   e2 > e => calculate_position_limit(MarketAt(e2), call.user) \succ call.ret

\* the last EarlyGrowth block: 49.95% of the liquidity
C7_Witness ==
    /\ IsLimitCall
    /\ call.blocks_since_creation = 499
    /\ call.ret = total_liquidity \odot Rat(999, 2000)

RECURSIVE SumOfMin(_, _)
\* the sum over a list of users of min(capital, limits[i])
SumOfMin(users, limits) ==
    IF users = <<>> THEN float(0)
    ELSE min(Head(users).capital, Head(limits)) \oplus SumOfMin(Tail(users), Tail(limits))

\* C8: every stake that enters an influence or price computation is
\* min(desired stake, position limit): the attacker's and each honest user's
\* in simulate_whale_attack, each honest user's and each sybil identity's
\* (desired stake capital_per_sybil) in simulate_sybil_attack, and every
\* trade recorded by add_trade.
C8_EffectiveStakeIsMin ==
    /\ IsWhaleResult =>
        /\ call.attacker_effective_stake = min(call.attacker_capital, call.attacker_limit)
        /\ call.total_effective = call.attacker_effective_stake
               \oplus SumOfMin(call.honest_users, limits_of(market, call.honest_users))
    /\ IsSybilResult =>
        /\ call.honest_total
               = SumOfMin(call.honest_users, limits_of(market, call.honest_users))
        /\ call.total_market
               = SumOfMin(call.sybil_users, call.sybil_limits) \oplus call.honest_total
    /\ call.op = "add_trade" =>
        rep_market.trades[Len(rep_market.trades)].amount
            = min(call.amount,
                  TierFraction(call.trader_reputation, call.trader_accuracy)
                      \odot rep_market.liquidity)

\* the list of 0-based indices names no member twice
DuplicateFree(members) ==
    \A i, j \in 1..Len(members) : members[i] = members[j] => i = j

Members(members) == {members[i] : i \in 1..Len(members)}

\* C9: for a population with positive totals, voting_power is
\* 0.6 * (coalition score sum / population score sum)
\* + 0.4 * (coalition reputation sum / population reputation sum), and
\* can_override is true exactly when voting_power >= 0.6666.
C9_CartelPowerFormula ==
    IsPowerResult =>
        LET cs == sum_over(cartel.scores, call.cartel_members)
            cr == sum_over(cartel.reputations, call.cartel_members)
            ts == sum(cartel.scores)
            tr == sum(cartel.reputations)
        IN  /\ call.ret.voting_power
                   = (Rat(6, 10) \odot (cs \oslash ts)) \oplus (Rat(4, 10) \odot (cr \oslash tr))
            /\ call.ret.can_override <=> (call.ret.voting_power \succeq Rat(6666, 10000))

\* a coalition whose power is exactly the threshold, and overrides
C9_Witness ==
    /\ IsPowerResult
    /\ call.ret.voting_power = Rat(6666, 10000)
    /\ call.ret.can_override

\* C10: power is additive over disjoint coalitions, lies in [0, 1] for a
\* coalition without duplicates, and is 1 for the whole population, which
\* therefore overrides.
C10_PowerAdditiveBounded ==
    (IsPowerResult /\ DuplicateFree(call.cartel_members)) =>
        LET A == Members(call.cartel_members)
            rest == (0..(cartel.n - 1)) \ A
        IN  /\ float(0) \preceq call.ret.voting_power
            /\ call.ret.voting_power \preceq float(1)
            /\ rest = {} => (call.ret.voting_power = float(1) /\ call.ret.can_override)
            /\ \A B \in SUBSET rest :
                   calculate_cartel_power(cartel, sorted(A \cup B)).voting_power
                       = call.ret.voting_power
                             \oplus calculate_cartel_power(cartel, sorted(B)).voting_power

\* the whole population of seven uniform legislators: power 1
C10_Witness ==
    /\ IsPowerResult
    /\ cartel.n = 7
    /\ Members(call.cartel_members) = 0..6
    /\ call.ret.voting_power = float(1)
    /\ call.ret.can_override

IsCostResult == call.op = "calculate_attack_cost"
IsBruteForceResult == call.op = "brute_force_cartels" /\ call.ret.raised = ""
IsMinimumCartelResult == call.op = "find_minimum_cartel" /\ call.ret.raised = ""

\* the subsets of the population that calculate_cartel_power lets override
Overriding(self) ==
    {S \in SUBSET (0..(self.n - 1)) :
        /\ calculate_cartel_power(self, sorted(S)).raised = ""
        /\ calculate_cartel_power(self, sorted(S)).can_override}

\* C11: for a non-empty population brute_force_cartels returns only
\* coalitions that can override, in ascending order of cost, and its first
\* entry costs no more than any subset of the population, of any size, that
\* can override.
C11_BruteForceGlobalMinimum ==
    (IsBruteForceResult /\ cartel.n > 0) =>
        LET results == call.ret.results
        IN  /\ \A k \in 1..Len(results) :
                   calculate_cartel_power(cartel, results[k].members).can_override
            /\ \A k \in 1..(Len(results) - 1) : results[k].cost \preceq results[k + 1].cost
            /\ \A S \in Overriding(cartel) :
                   /\ results # <<>>
                   /\ results[1].cost \preceq calculate_attack_cost(cartel, sorted(S))

\* C12: for seven legislators with scores [100]*7 and reputations [100]*7
\* the first coalition of the enumeration has size 5 and members
\* [0, 1, 2, 3, 4].
C12_UniformSevenMinimumIsFive ==
    (IsBruteForceResult /\ cartel.scores = uniform(7, 100)
                        /\ cartel.reputations = uniform(7, 100)) =>
        /\ call.ret.results # <<>>
        /\ call.ret.results[1].size = 5
        /\ call.ret.results[1].members = <<0, 1, 2, 3, 4>>

\* C13: on a population with positive totals for which brute_force_cartels
\* returns at least one coalition, find_minimum_cartel returns a coalition
\* that can override and whose total_cost is at most the cost of the
\* cheapest coalition of brute_force_cartels.
C13_OptimizerBelowBruteForce ==
    (IsMinimumCartelResult /\ brute_force_cartels(cartel).results # <<>>) =>
        /\ call.ret.power.can_override
        /\ call.ret.total_cost \preceq brute_force_cartels(cartel).results[1].cost

\* eight uniform legislators: the optimizer returns six of them at a cost
\* below the cheapest of the nine enumerated coalitions
C13_Witness ==
    /\ IsMinimumCartelResult
    /\ cartel.n = 8
    /\ Len(brute_force_cartels(cartel).results) = 9
    /\ call.ret.cartel_size = 6
    /\ call.ret.power.can_override
    /\ call.ret.total_cost \prec brute_force_cartels(cartel).results[1].cost

\* the per-member cost without the coordination term
MemberCostWithoutCoordination(self, member) ==
    ((self.market_value \odot Rat(25, 1000)) \odot float(12))
        \oplus ((self.reputations[member + 1] \odot Rat(10, 100)) \odot Rat(30, 100))

\* B + B * (|S| - 1) * 0.05
WithOverhead(B, size) == B \oplus ((B \odot float(size - 1)) \odot Rat(5, 100))

\* C14 as stated: calculate_attack_cost(S) is B + B * (|S| - 1) * 0.05 with
\* B the sum over the members of
\* market_value * 0.025 * 12 + reputation_i * 0.10 * 0.30.
C14_CostWithoutCoordination ==
    IsCostResult =>
        LET S == call.cartel_members
            B == sum([k \in 1..Len(S) |-> MemberCostWithoutCoordination(cartel, S[k])])
        IN  call.ret = WithOverhead(B, Len(S))

\* C14: calculate_attack_cost(S) is B + B * (|S| - 1) * 0.05 with B the sum
\* over the members of
\* market_value * 0.025 * 12 + reputation_i * 0.10 * 0.30 + 0.1 * |S|, so
\* the coalition size enters the per-member cost as well as the overhead.
C14_CostWithCoordination ==
    IsCostResult =>
        LET S == call.cartel_members
            B == sum([k \in 1..Len(S) |->
                         MemberCostWithoutCoordination(cartel, S[k])
                             \oplus (Rat(1, 10) \odot float(Len(S)))])
        IN  call.ret = WithOverhead(B, Len(S))

\* five of seven uniform legislators at market value 100: 201, where the
\* sum without the coordination term gives 198
C14_Witness ==
    /\ IsCostResult
    /\ cartel.scores = uniform(7, 100)
    /\ cartel.market_value = float(100)
    /\ call.cartel_members = <<0, 1, 2, 3, 4>>
    /\ call.ret = float(201)

\* C15: find_minimum_cartel returns a coalition that can override under
\* calculate_cartel_power and whose total_cost, the sum over its members of
\* market_value * 0.025 * 12 + reputation_i * 0.10 * 0.30, is minimal among
\* all subsets of the population that can override.
C15_OptimizerMinimalAmongOverriding ==
    IsMinimumCartelResult =>
        LET linear(members) ==
                sum([k \in 1..Len(members) |->
                        MemberCostWithoutCoordination(cartel, members[k])])
        IN  /\ call.ret.power.can_override
            /\ call.ret.power = calculate_cartel_power(cartel, call.ret.cartel_members)
            /\ call.ret.total_cost = linear(call.ret.cartel_members)
            /\ \A S \in Overriding(cartel) : call.ret.total_cost \preceq linear(sorted(S))

\* the population with one heavy scorer and one heavy reputation holder:
\* the optimizer returns both and one more legislator
C15_Witness ==
    /\ IsMinimumCartelResult
    /\ cartel.n = 7
    /\ cartel.scores[1] = float(10)
    /\ call.ret.cartel_size = 3
    /\ {0, 6} \subseteq Members(call.ret.cartel_members)
    /\ call.ret.power.can_override

IsDecayResult == call.op = "simulate_reputation_decay_resistance"

\* C16: for an initial reputation >= 0 the decayed reputation never grows
\* with the inactivity time: a longer inactivity leaves at most as much.
C16_DecayMonotone ==
    (IsDecayResult /\ call.ret.initial_reputation \succeq float(0)) =>
        \A later \in call.ret.months_inactive..(MaxMonths + 1) :
            simulate_reputation_decay_resistance(call.ret.initial_reputation, later)
                    .decayed_reputation
                \preceq call.ret.decayed_reputation

\* ten months inactive: 9300 of 10000 left, and eleven months leave less
C16_Witness ==
    /\ IsDecayResult
    /\ call.ret.initial_reputation = float(10000)
    /\ call.ret.months_inactive = 10
    /\ call.ret.decayed_reputation = float(9300)
    /\ simulate_reputation_decay_resistance(float(10000), 11).decayed_reputation
           \prec call.ret.decayed_reputation

\* C17: for an initial reputation >= 0 the decayed reputation lies between
\* 25% of the initial reputation and the initial reputation, the total decay
\* rate is at most 0.75, and from 75 decay periods on the decayed reputation
\* is exactly 25% of the initial reputation.
C17_DecayFloor ==
    (IsDecayResult /\ call.ret.initial_reputation \succeq float(0)) =>
        LET initial == call.ret.initial_reputation
            days == call.ret.months_inactive * 30
        IN  /\ (initial \odot Rat(25, 100)) \preceq call.ret.decayed_reputation
            /\ call.ret.decayed_reputation \preceq initial
            /\ call.ret.locals.branch = "decay" =>
                   call.ret.locals.total_decay_rate \preceq Rat(75, 100)
            /\ (Rat(days - 90, 30) \succeq float(75)) =>
                   call.ret.decayed_reputation = initial \odot Rat(25, 100)

\* 79 months inactive: 76 periods, the rate capped at 0.75, 2500 left
C17_Witness ==
    /\ IsDecayResult
    /\ call.ret.initial_reputation = float(10000)
    /\ call.ret.months_inactive = 79
    /\ call.ret.locals.branch = "decay"
    /\ call.ret.locals.decay_periods = float(76)
    /\ call.ret.locals.total_decay_rate = Rat(75, 100)
    /\ call.ret.decayed_reputation = float(2500)

\* C18: up to and including 90 inactive days (months_inactive 0..3) the
\* decayed reputation is the initial reputation and decay_amount is 0; at the
\* first length beyond 90 days (months_inactive 4) a positive initial
\* reputation decays by a strictly positive amount.
C18_NoDecayWithinThreshold ==
    IsDecayResult =>
        /\ call.ret.months_inactive * 30 <= 90 =>
               /\ call.ret.decayed_reputation = call.ret.initial_reputation
               /\ call.ret.decay_amount = float(0)
        /\ (call.ret.months_inactive = 4 /\ call.ret.initial_reputation \succ float(0)) =>
               /\ call.ret.decay_amount \succ float(0)
               /\ call.ret.decayed_reputation \prec call.ret.initial_reputation

\* exactly 90 inactive days: nothing decays
C18_Witness ==
    /\ IsDecayResult
    /\ call.ret.months_inactive = 3
    /\ call.ret.initial_reputation = float(10000)
    /\ call.ret.decayed_reputation = float(10000)
    /\ call.ret.decay_amount = float(0)

IsTwelveMonthsOfTenThousand ==
    /\ IsDecayResult
    /\ call.ret.months_inactive = 12
    /\ call.ret.initial_reputation = float(10000)

\* C19 as stated: 12 months of inactivity on 10000 use about 9.17 decay
\* periods and a total decay rate of about 0.0917, and leave about 9083.
C19_TwelveMonthsAs365Days ==
    IsTwelveMonthsOfTenThousand =>
        /\ call.ret.locals.branch = "decay"
        /\ Rat(916, 100) \preceq call.ret.locals.decay_periods
        /\ call.ret.locals.decay_periods \preceq Rat(918, 100)
        /\ Rat(916, 10000) \preceq call.ret.locals.total_decay_rate
        /\ call.ret.locals.total_decay_rate \preceq Rat(918, 10000)
        /\ float(9082) \preceq call.ret.decayed_reputation
        /\ call.ret.decayed_reputation \preceq float(9084)

\* C19: 12 months of inactivity are counted as 12 * 30 = 360 days; on 10000
\* they use (360 - 90) / 30 = 9 decay periods and a total decay rate of
\* 0.09, and leave 9100 (decay_amount 900, decay_percentage 9).
C19_TwelveMonthsAs360Days ==
    IsTwelveMonthsOfTenThousand =>
        /\ call.ret.locals.branch = "decay"
        /\ call.ret.locals.decay_periods = float(9)
        /\ call.ret.locals.total_decay_rate = Rat(9, 100)
        /\ call.ret.decayed_reputation = float(9100)
        /\ call.ret.decay_amount = float(900)
        /\ call.ret.decay_percentage = float(9)

\* the call of analyze_results for month 12 has returned
C19_Witness ==
    /\ IsTwelveMonthsOfTenThousand
    /\ call.ret.remaining_percentage = float(91)

\* C20: when the total score or the total reputation of the population is
\* zero, calculate_cartel_power and find_minimum_cartel return a result in
\* which the share of the zero total is zero; they raise no division error.
C20_ZeroTotalIsZeroShare ==
    (/\ call.op \in {"calculate_cartel_power", "find_minimum_cartel"}
     /\ (sum(cartel.scores) = float(0) \/ sum(cartel.reputations) = float(0))) =>
        /\ call.ret.raised = ""
        /\ LET power == IF call.op = "calculate_cartel_power"
                        THEN call.ret ELSE call.ret.power
           IN  /\ sum(cartel.scores) = float(0) => power.score_share = float(0)
               /\ sum(cartel.reputations) = float(0) => power.rep_share = float(0)

\* C21: for an empty population, and for a population in which no
\* coalition reaches the override threshold, find_minimum_cartel and
\* brute_force_cartels return without raising, and report no coalition as
\* overriding.
C21_NoSolutionIsAResult ==
    (/\ call.op \in {"find_minimum_cartel", "brute_force_cartels"}
     /\ (cartel.n = 0 \/ Overriding(cartel) = {})) =>
        /\ call.ret.raised = ""
        /\ call.op = "brute_force_cartels" => call.ret.results = <<>>
        /\ call.op = "find_minimum_cartel" => call.ret.cartel_members = <<>>

\* C22: a LegislatorCartel is only ever constructed from a valid
\* configuration: a non-empty population, score and reputation lists of
\* n_legislators entries, and no negative reputation.
C22_InvalidConfigurationRejected ==
    program = "cartel_analysis" =>
        /\ cartel.n > 0
        /\ Len(cartel.scores) = cartel.n
        /\ Len(cartel.reputations) = cartel.n
        /\ \A i \in 1..Len(cartel.reputations) : cartel.reputations[i] \succeq float(0)

IsTrialRecord == call.op = "simulate_cartel_scenarios" /\ call.raised = ""

\* C23: in a trial record detection_prob is min(0.05 * min_cartel_size, 0.95),
\* which never falls as the size grows and never exceeds 0.95;
\* expected_value is attack_gain * (1 - detection_prob) - cartel_cost with
\* attack_gain = 0.5 * market_value; profitable is true exactly when
\* expected_value > 0.
C23_TrialRecord ==
    IsTrialRecord =>
        LET rec == call.results[1]
            capped(size) == IF 5 * size <= 95 THEN Rat(5 * size, 100) ELSE Rat(95, 100)
        IN  /\ rec.detection_prob = capped(rec.min_cartel_size)
            /\ \A size \in 0..MAX_LEGISLATORS :
                   /\ detection_prob(size) = capped(size)
                   /\ detection_prob(size) \preceq detection_prob(size + 1)
                   /\ detection_prob(size) \preceq Rat(95, 100)
            /\ rec.attack_gain = Rat(1, 2) \odot cartel.market_value
            /\ rec.expected_value
                   = (rec.attack_gain \odot (float(1) \ominus rec.detection_prob))
                         \ominus rec.cartel_cost
            /\ rec.profitable <=> (rec.expected_value \succ float(0))

\* one legislator holding 0.6666 of the power at market value 1000: a
\* profitable trial
C23_Witness ==
    /\ IsTrialRecord
    /\ call.results[1].min_cartel_size = 1
    /\ call.results[1].detection_prob = Rat(5, 100)
    /\ call.results[1].attack_gain = float(500)
    /\ call.results[1].expected_value \succ float(0)
    /\ call.results[1].profitable

\* C24: the cartel_cost of a trial record is calculate_attack_cost of the
\* members of the trial's minimum cartel.
C24_TrialCostIsAttackCost ==
    IsTrialRecord =>
        call.results[1].cartel_cost
            = calculate_attack_cost(cartel, call.min_cartel.cartel_members)

\* C25: the clock of a market only advances, and its creation block and
\* liquidity never change, across the calls of simulate_whale_attack and
\* simulate_sybil_attack on it; so its phase never moves back.
C25_ClockOnlyAdvances ==
    [][/\ current_block' >= current_block
       /\ creation_block' = creation_block
       /\ total_liquidity' = total_liquidity]_vars

\* the market as it is before any call: the clock at the creation block
FreshMarket == [market EXCEPT !.current_block = creation_block]

\* simulate_sybil_attack entered on the market self
SybilAttackOn(self, total_attacker_capital, sybil_count, honest_users) ==
    LET genesis == genesis_result(set_current_block(self, 50),
                                  sybil_users(total_attacker_capital, sybil_count))
    IN  standard_result(set_current_block(set_current_block(self, 50), 600),
                        total_attacker_capital, sybil_count, honest_users, genesis)

\* C26: for fixed arguments and liquidity, simulate_whale_attack and
\* simulate_sybil_attack return the same result whatever block the market
\* stood at on entry: the result of a call entered at any block is the
\* result of the same call on a market no trial has touched.
C26_ResultIndependentOfEntryBlock ==
    /\ IsWhaleResult =>
           simulate_whale_attack(set_current_block(FreshMarket, 600),
                                 call.attacker, call.honest_users)
                   @@ [attacker |-> call.attacker, entry_block |-> call.entry_block]
               = call
    /\ IsSybilResult =>
           SybilAttackOn(FreshMarket, call.total_attacker_capital,
                         call.sybil_count, call.honest_users)
                   @@ [entry_block |-> call.entry_block]
               = call

\* a whale attack entered in Genesis (block 50) and a sybil attack entered
\* after it (block 600) both return Standard-phase figures
C26_Witness ==
    \/ /\ IsWhaleResult
       /\ call.entry_block = 50
       /\ call.attacker_reputation = float(10000)
       /\ call.attacker_limit = total_liquidity \odot Rat(5, 100)
    \/ /\ IsSybilResult
       /\ call.entry_block = 600
       /\ call.genesis_blocked
       /\ call.sybil_per_user_limit = total_liquidity \odot Rat(1, 100)

\* C27: every sybil identity gets the Tier 1 limit in Standard phase:
\* sybil_total_limit is sybil_count * 0.01 * total_liquidity whatever the
\* attacker's capital, sybil_advantage_tier5 is sybil_count / 5, and
\* meritrank_compliant is true exactly when sybil_count <= 10.
C27_SybilsOnTierOne ==
    IsSybilResult =>
        /\ \A i \in 1..Len(call.sybil_limits) :
               call.sybil_limits[i] = total_liquidity \odot Rat(1, 100)
        /\ call.sybil_total_limit
               = (float(call.sybil_count) \odot Rat(1, 100)) \odot total_liquidity
        /\ call.sybil_advantage_tier5 = Rat(call.sybil_count, 5)
        /\ call.meritrank_compliant <=> (call.sybil_count <= 10)

\* eleven sybils: advantage 11/5, not compliant
C27_Witness ==
    /\ IsSybilResult
    /\ call.sybil_count = 11
    /\ call.sybil_advantage_tier5 = Rat(11, 5)
    /\ ~call.meritrank_compliant

\* C28: for every attacker and every non-empty honest population with
\* positive capitals, simulate_whale_attack returns gain_ratio < 1.0 and
\* protection_effectiveness > 0.
C28_WhaleGainBelowOne ==
    (/\ IsWhaleResult
     /\ call.honest_users # <<>>
     /\ call.attacker_capital \succ float(0)
     /\ \A i \in 1..Len(call.honest_users) : call.honest_users[i].capital \succ float(0)) =>
        /\ call.gain_ratio \prec float(1)
        /\ call.protection_effectiveness \succ float(0)

\* C29: the limit is not monotone over the lifetime of a market with
\* positive liquidity: at every EarlyGrowth block it is at least 30% of the
\* liquidity whatever the user's reputation and accuracy, strictly above the
\* same user's limit at every Genesis block (at most 20%) and at every
\* Standard block (at most 5%); a user below reputation 1000 goes from 0 at
\* elapsed 99 to 30% at elapsed 100, and every limit drops at elapsed 500.
C29_LimitNotMonotone ==
    (IsLimitCall /\ call.phase = "EarlyGrowth" /\ total_liquidity \succ float(0)) =>
        LET limit(e) == calculate_position_limit(MarketAt(e), call.user)
        IN  /\ call.ret \succeq (total_liquidity \odot Rat(30, 100))
            /\ \A r \in Reputations, a \in {float(0), float(1)} :
                   calculate_position_limit(market,
                       User(call.user.address, call.user.capital, r, a, 5)) = call.ret
            /\ \A e \in {0, 1, 50, 98, 99} :
                   /\ limit(e) \preceq (total_liquidity \odot Rat(20, 100))
                   /\ limit(e) \prec call.ret
            /\ \A e \in {500, 501, 600, 1000} :
                   /\ limit(e) \preceq (total_liquidity \odot Rat(5, 100))
                   /\ limit(e) \prec call.ret
            /\ call.user.reputation \prec float(1000) =>
                   /\ limit(99) = float(0)
                   /\ limit(100) = total_liquidity \odot Rat(30, 100)
            /\ limit(500) \prec limit(499)

\* a newcomer at elapsed 100: 30% of the liquidity, after 0 in Genesis and
\* before 1% in Standard
C29_Witness ==
    /\ IsLimitCall
    /\ call.blocks_since_creation = 100
    /\ call.user.reputation = float(100)
    /\ call.ret = total_liquidity \odot Rat(30, 100)
    /\ calculate_position_limit(MarketAt(99), call.user) = float(0)
    /\ calculate_position_limit(MarketAt(500), call.user) = total_liquidity \odot Rat(1, 100)

RECURSIVE TradedInto(_, _)
\* the sum of the recorded amounts of the trades on one outcome
TradedInto(trades, outcome) ==
    IF trades = <<>> THEN float(0)
    ELSE (IF Head(trades).outcome = outcome THEN Head(trades).amount ELSE float(0))
             \oplus TradedInto(Tail(trades), outcome)

\* C30: after any sequence of add_trade calls with outcomes 0/1 and amounts
\* >= 0, total_yes + total_no is the liquidity plus the recorded amounts,
\* every recorded amount is at most 5% of the liquidity, a trade is flagged
\* capped exactly when the requested amount exceeded the trader's limit,
\* each trade has changed only the pool of its own outcome, and the two
\* prices add up to 1.
C30_PoolsAccountForTrades ==
    program = "prediction_accuracy" =>
        LET m == rep_market
            half == m.liquidity \oslash float(2)
            limit(reputation, accuracy) == TierFraction(reputation, accuracy) \odot m.liquidity
        IN  /\ m.total_yes \oplus m.total_no
                   = m.liquidity \oplus (TradedInto(m.trades, 0) \oplus TradedInto(m.trades, 1))
            /\ m.total_yes = half \oplus TradedInto(m.trades, 0)
            /\ m.total_no = half \oplus TradedInto(m.trades, 1)
            /\ \A k \in 1..Len(m.trades) :
                   /\ m.trades[k].amount \preceq (m.liquidity \odot Rat(5, 100))
                   /\ m.trades[k].amount
                          \preceq limit(m.trades[k].reputation, m.trades[k].accuracy)
                   /\ m.trades[k].capped =>
                          m.trades[k].amount
                              = limit(m.trades[k].reputation, m.trades[k].accuracy)
            /\ call.op = "add_trade" =>
                   LET last == m.trades[Len(m.trades)]
                   IN  /\ last.outcome = call.outcome
                       /\ last.capped <=>
                              (call.amount
                                   \succ limit(call.trader_reputation, call.trader_accuracy))
                       /\ ~last.capped => last.amount = call.amount
            /\ calculate_price(m, 0) \oplus calculate_price(m, 1) = float(1)
            /\ call.op = "calculate_price" =>
                   call.ret \oplus calculate_price(m, 1 - call.outcome) = float(1)

\* a capped trade of 10 on outcome 0 (1 recorded) and an uncapped trade of 3
\* on outcome 1: pools 51 and 53, price of outcome 0 is 51/104
C30_Witness ==
    /\ program = "prediction_accuracy"
    /\ Len(rep_market.trades) = 2
    /\ rep_market.trades[1].capped
    /\ rep_market.trades[1].amount = float(1)
    /\ ~rep_market.trades[2].capped
    /\ rep_market.total_yes = float(51)
    /\ rep_market.total_no = float(53)
    /\ call.op = "calculate_price"
    /\ call.outcome = 0
    /\ call.ret = Rat(51, 104)

====
